---- MODULE Spec2Model ----
(***************************************************************************)
(* A model of pynsc: the request builder NSCRequest (two source variants,  *)
(* studentclearinghouse/nsc_request.py and pynsc/nsc_request.py) and the   *)
(* return-file converter nsc_return_se_convert.                            *)
(*                                                                         *)
(* Text is a sequence of one-character strings.  A missing value (pandas   *)
(* NaN / None) of a text cell is the one-element sequence NA, whose element*)
(* is no character of any alphabet used here.                              *)
(***************************************************************************)
EXTENDS Integers, Sequences, FiniteSets, TLC

VARIABLES
    norm,       \* one field going through the .str chain of create_request
    obj,        \* the NSCRequest object: pc, variant, configuration, r, h, t
    df,         \* the data frame handed to the last create_request call
    outfile,    \* the lines of the file to_file wrote
    csv,        \* the rows of the return file read by nsc_return_se_convert
    conv        \* the converter: pc, intermediate tables, returned table

vars == <<norm, obj, df, outfile, csv, conv>>

(***************************************************************************)
(* Bounds of the exploration.                                              *)
(***************************************************************************)
MaxStrLen == 6

NA == <<"NA">>

Min(a, b) == IF a < b THEN a ELSE b

(***************************************************************************)
(* Characters.  "a" is an ASCII letter, " " the ASCII space, "U+00E9" a    *)
(* non-ASCII letter and "U+00A0" the no-break space, which is non-ASCII    *)
(* and for which Python's str.isspace() is true.                           *)
(***************************************************************************)
NameAlphabet == {"a", " ", "U+00E9", "U+00A0"}

Ord(c) ==
    CASE c = "a" -> 97
      [] c = " " -> 32
      [] c = "U+00E9" -> 233
      [] c = "U+00A0" -> 160
      [] c = "M" -> 77
      [] c = "L" -> 76
      [] c = "J" -> 74
      [] c = "?" -> 63

Chr(b) ==
    CASE b = 97 -> "a"
      [] b = 32 -> " "
      [] b = 63 -> "?"
      [] b = 77 -> "M"
      [] b = 76 -> "L"
      [] b = 74 -> "J"

IsSpace(c) == c \in {" ", "U+00A0"}

(***************************************************************************)
(* The pandas .str accessor chain of create_request:                       *)
(*   .str[:n].str.strip().str.encode('ascii','ignore').str.decode('ascii') *)
(* Every .str method maps a missing value to a missing value.              *)
(***************************************************************************)
str_slice(s, n) == IF s = NA THEN NA ELSE SubSeq(s, 1, Min(n, Len(s)))

RECURSIVE lstrip(_)
lstrip(s) ==
    IF s = <<>> THEN <<>>
    ELSE IF IsSpace(Head(s)) THEN lstrip(Tail(s)) ELSE s

RECURSIVE rstrip(_)
rstrip(s) ==
    IF s = <<>> THEN <<>>
    ELSE IF IsSpace(s[Len(s)]) THEN rstrip(SubSeq(s, 1, Len(s) - 1)) ELSE s

str_strip(s) == IF s = NA THEN NA ELSE rstrip(lstrip(s))

\* errors='replace' instead of errors='ignore': "?" (63) for each non-ASCII character
RECURSIVE encode_ascii_replace(_)
encode_ascii_replace(s) ==
    IF s = <<>> THEN <<>>
    ELSE <<IF Ord(Head(s)) < 128 THEN Ord(Head(s)) ELSE 63>>
             \o encode_ascii_replace(Tail(s))

\* bytes of s under the ascii codec, unencodable characters skipped
RECURSIVE encode_ascii_ignore(_)
encode_ascii_ignore(s) ==
    IF s = <<>> THEN <<>>
    ELSE (IF Ord(Head(s)) < 128 THEN <<Ord(Head(s))>> ELSE <<>>)
             \o encode_ascii_ignore(Tail(s))

decode_ascii(b) == [i \in 1..Len(b) |-> Chr(b[i])]

str_encode_decode(s) == IF s = NA THEN NA ELSE decode_ascii(encode_ascii_ignore(s))

\* the chain applied to FirstName, LastName (n = 20), MiddleInitial (1), Suffix (5)
truncate_trim_ascii(s, n) == str_encode_decode(str_strip(str_slice(s, n)))

\* the limits the chain is used with
FirstNameLimit == 20
MiddleInitialLimit == 1
SuffixLimit == 5
ReturnRequestFieldLimit == 50
SchoolNameLimit == 40

FieldLimits == {FirstNameLimit, MiddleInitialLimit, SuffixLimit}

RECURSIVE StringsUpTo(_, _)
StringsUpTo(alphabet, n) ==
    IF n = 0 THEN {<<>>}
    ELSE LET shorter == StringsUpTo(alphabet, n - 1)
         IN  shorter \cup {Append(s, c) : s \in {x \in shorter : Len(x) = n - 1},
                                          c \in alphabet}

NormIdle == [pc |-> "idle", value |-> <<>>, limit |-> 0, sliced |-> <<>>,
             stripped |-> <<>>, out |-> <<>>, again |-> <<>>]

\* one field value goes through the chain, step by step as the chain does
NormalizeField ==
    /\ norm.pc = "input"
    /\ LET sl == str_slice(norm.value, norm.limit)
           st == str_strip(sl)
       IN  norm' = [norm EXCEPT !.pc = "normalized", !.sliced = sl, !.stripped = st,
                                !.out = str_encode_decode(st)]
    /\ UNCHANGED <<obj, df, outfile, csv, conv>>

\* the result is handed to the chain a second time, with the same limit
NormalizeAgain ==
    /\ norm.pc = "normalized"
    /\ norm' = [norm EXCEPT !.pc = "renormalized",
                            !.again = truncate_trim_ascii(norm.out, norm.limit)]
    /\ UNCHANGED <<obj, df, outfile, csv, conv>>

(***************************************************************************)
(* NSCRequest.  `variant' tells the two source files apart:                *)
(*   "studentclearinghouse"  src/studentclearinghouse/nsc_request.py       *)
(*   "pynsc"                 src/pynsc/nsc_request.py                      *)
(***************************************************************************)
Variants == {"studentclearinghouse", "pynsc"}

\* config['school'] of the configuration handed to the constructor
SchoolFice == <<"9", "9">>
SchoolBranch == <<"0", "0">>
SchoolName == <<" ", "M", "y", " ">>

\* datetime.datetime.now().strftime('%Y%m%d')
Today == <<"2", "0", "2", "3", "1", "1", "0", "1">>

SearchAlphabet == {"2", "-"}
MaxSearchLen == 10

\* the searches of the documentation and of the partial forms
SearchExamples ==
    { <<>>,
      <<"2", "0", "2", "0">>,
      <<"2", "0", "2", "0", "0", "8">>,
      <<"2", "0", "2", "0", "-", "0", "8">>,
      <<"2", "0", "2", "0", "-", "0", "8", "-", "1", "5">>,
      <<"2", "0", "2", "0", "0", "8", "1", "5">> }

Ok(v) == [exc |-> "none", value |-> v]
Raise(e) == [exc |-> e, value |-> <<>>]

\* pynsc: the search is stored as given
expand_search_none(search) ==
    IF search = <<>> THEN Ok(Today) ELSE Ok(search)

\* studentclearinghouse: str has no method `contains', so evaluating
\* search.contains('-') raises AttributeError; `and' evaluates it exactly when
\* the length test before it is true
expand_search(search) ==
    IF search = <<>> THEN Ok(Today)
    ELSE IF Len(search) = 4 THEN Ok(search \o <<"0", "1", "0", "1">>)
    ELSE IF Len(search) = 6 THEN Ok(search \o <<"0", "1">>)
    ELSE IF Len(search) = 7 THEN Raise("AttributeError")
    ELSE IF Len(search) = 10 THEN Raise("AttributeError")
    ELSE Ok(search)

NoObject ==
    [pc |-> "new", variant |-> "none", arg |-> <<>>,
     fice |-> <<>>, branch |-> <<>>, name |-> <<>>,
     inquiryType |-> "", enrolledStudents |-> "None", search |-> <<>>,
     built |-> FALSE, r |-> <<>>, h |-> <<>>, t |-> <<>>,
     calls |-> 0, result |-> "none", advisories |-> {},
     returned |-> "none", source |-> [columns |-> {}, rows |-> <<>>]]

\* NSCRequest(inquiryType=..., search=..., enrolledStudents=..., config=...)
Construct(variant, inquiryType, search, enrolledStudents) ==
    /\ obj.pc = "new"
    /\ LET e == IF variant = "pynsc" THEN expand_search_none(search)
                ELSE expand_search(search)
       IN  obj' = IF e.exc # "none"
                  THEN [obj EXCEPT !.pc = "raised", !.variant = variant,
                                   !.arg = search, !.result = e.exc]
                  ELSE [obj EXCEPT !.pc = "ready", !.variant = variant,
                                   !.arg = search,
                                   !.fice = SchoolFice, !.branch = SchoolBranch,
                                   !.name = SchoolName,
                                   !.inquiryType = IF inquiryType = "" THEN "PA"
                                                   ELSE inquiryType,
                                   !.enrolledStudents = enrolledStudents,
                                   !.search = e.value]
    /\ UNCHANGED <<norm, df, outfile, csv, conv>>

(***************************************************************************)
(* Cells of the date-like columns DOB and SearchBeginDate.  A data frame   *)
(* column of dtype object holds, row by row, a datetime.date (type "date", *)
(* ymd = <<year, month, day>>), a str (type "str") or None/NaN ("null").   *)
(***************************************************************************)
DateCell(ymd) == [type |-> "date", text |-> <<>>, ymd |-> ymd]
StrCell(s) == [type |-> "str", text |-> s, ymd |-> <<>>]
NullCell == [type |-> "null", text |-> <<>>, ymd |-> <<>>]

Digits == <<"0", "1", "2", "3", "4", "5", "6", "7", "8", "9">>
DigitChar(k) == Digits[k + 1]
IsDigit(c) == \E k \in 1..10 : Digits[k] = c
DigitVal(c) == (CHOOSE k \in 1..10 : Digits[k] = c) - 1

\* x.strftime('%Y%m%d')
strftime_Ymd(ymd) ==
    << DigitChar(ymd[1] \div 1000), DigitChar((ymd[1] \div 100) % 10),
       DigitChar((ymd[1] \div 10) % 10), DigitChar(ymd[1] % 10),
       DigitChar(ymd[2] \div 10), DigitChar(ymd[2] % 10),
       DigitChar(ymd[3] \div 10), DigitChar(ymd[3] % 10) >>

\* a str that pd.to_datetime(..., format="%Y%m%d") accepts
ParsesYmd(s) ==
    /\ Len(s) = 8
    /\ \A i \in 1..8 : IsDigit(s[i])
    /\ 10 * DigitVal(s[5]) + DigitVal(s[6]) \in 1..12
    /\ 10 * DigitVal(s[7]) + DigitVal(s[8]) \in 1..31

\* isinstance(x, datetime.date) or isinstance(x, datetime.datetime) or ...
IsDateTyped(x) == x.type = "date"

\* df[col].apply(cvtdate): strftime of a date; anything else raises inside the
\* try, and the handler's np.nan is a NameError (np is not imported)
apply_cvtdate(col) ==
    IF \E i \in 1..Len(col) : col[i].type # "date" THEN Raise("NameError")
    ELSE Ok([i \in 1..Len(col) |-> StrCell(strftime_Ymd(col[i].ymd))])

\* df[col].apply(lambda x: x.strftime("%Y%m%d")) of the pynsc variant
apply_strftime(col) ==
    IF \E i \in 1..Len(col) : col[i].type # "date" THEN Raise("AttributeError")
    ELSE Ok([i \in 1..Len(col) |-> StrCell(strftime_Ymd(col[i].ymd))])

\* pd.to_datetime(df["DOB"], format="%Y%m%d") raises on a str it cannot parse;
\* a missing value becomes NaT and a date object is taken as it is
to_datetime_raises(col) ==
    \E i \in 1..Len(col) : col[i].type = "str" /\ ~ParsesYmd(col[i].text)

\* the columns create_request has no default for
ColumnsWithoutDefault == {"FirstName", "LastName", "DOB"}

\* lines 166-170: the columns a frame must have
RequiredColumns == {"FirstName", "MiddleInitial", "LastName", "Suffix", "DOB"}
OptionalColumns == {"SSN", "SearchBeginDate", "ReturnRequestField"}

Column(d, name) == [i \in 1..Len(d.rows) |-> d.rows[i][name]]

\* the DOB column of r
dob_column(variant, d) ==
    LET col == Column(d, "DOB")
    IN  IF variant = "pynsc"
        THEN IF IsDateTyped(col[1]) THEN apply_strftime(col) ELSE Ok(col)
        ELSE IF IsDateTyped(col[1]) THEN apply_cvtdate(col)
             ELSE IF to_datetime_raises(col) THEN Raise("ValueError")
             ELSE Ok(col)

\* the SearchBeginDate column of r
search_begin_column(variant, search, d) ==
    IF "SearchBeginDate" \notin d.columns
    THEN Ok([i \in 1..Len(d.rows) |-> StrCell(search)])
    ELSE LET col == Column(d, "SearchBeginDate")
         IN  IF IsDateTyped(col[1])
             THEN (IF variant = "pynsc" THEN apply_strftime(col)
                   ELSE apply_cvtdate(col))
             ELSE Ok(col)

\* a copy of the SSN column unless enrolledStudents is True
ssn_copied_unless_enrolled(o, d) ==
    o.inquiryType = "PA" /\ o.enrolledStudents # "True" /\ "SSN" \in d.columns

\* the SSN column is copied only for a PA inquiry with enrolledStudents == False
ssn_copied(o, d) ==
    o.inquiryType = "PA" /\ o.enrolledStudents = "False" /\ "SSN" \in d.columns

\* the notices printed by create_request
ssn_advisory(o, d) ==
    IF "SSN" \in d.columns
       /\ (o.inquiryType # "PA"
           \/ (o.inquiryType = "PA" /\ o.enrolledStudents = "True"))
    THEN {"SSN ignored"} ELSE {}

column_advisories(d) ==
    (IF "ReturnRequestField" \notin d.columns
     THEN {"ReturnRequestField not provided"} ELSE {})
    \cup (IF "SearchBeginDate" \notin d.columns
          THEN {"SearchBeginDate not provided"} ELSE {})

\* row i of the working frame r, before the FirstName filter
request_row(o, d, dob, sbd, i) ==
    LET x == d.rows[i]
    IN  [RecordType |-> "D1",
         SSN |-> IF ssn_copied(o, d) THEN x.SSN ELSE <<>>,
         FirstName |-> truncate_trim_ascii(x.FirstName, FirstNameLimit),
         MiddleInitial |-> IF "MiddleInitial" \in d.columns
                           THEN truncate_trim_ascii(x.MiddleInitial, MiddleInitialLimit)
                           ELSE <<>>,
         LastName |-> truncate_trim_ascii(x.LastName, FirstNameLimit),
         Suffix |-> IF "Suffix" \in d.columns
                    THEN truncate_trim_ascii(x.Suffix, SuffixLimit)
                    ELSE <<>>,
         DOB |-> dob[i],
         SearchBeginDate |-> sbd[i],
         Blank |-> <<>>,
         SchoolCode |-> o.fice,
         BranchCode |-> o.branch,
         ReturnRequestField |-> IF "ReturnRequestField" \in d.columns
                                THEN str_strip(str_slice(x.ReturnRequestField,
                                                         ReturnRequestFieldLimit))
                                ELSE <<>>]

\* r.loc[:,"FirstName"].notna()
FirstName_notna(row) == row.FirstName # NA

header_line(o) ==
    [RecordType |-> "H1", fice |-> o.fice, branch |-> o.branch,
     name |-> str_strip(str_slice(o.name, SchoolNameLimit)),
     date |-> Today, inquiryType |-> o.inquiryType, mode |-> "I"]

\* the count of the T1 line: r.shape[0]+2, or r.shape[0] in the pynsc variant;
\* r is the working frame, not the filtered self.r
trailer_count(variant, working) ==
    IF variant = "pynsc" THEN Len(working) ELSE Len(working) + 2

trailer_line(variant, working) ==
    [RecordType |-> "T1", count |-> trailer_count(variant, working)]

Failed(e, adv) == [exc |-> e, r |-> <<>>, h |-> <<>>, t |-> <<>>, advisories |-> adv]

\* the whole of create_request(df): the exception or return code it ends with,
\* or the tables it stores
create_request_result(o, d) ==
    IF d.rows = <<>> \/ d.columns = {}
    THEN Failed(IF o.variant = "pynsc" THEN "-1" ELSE "ValueError", {})
    ELSE IF RequiredColumns \ d.columns # {}
    THEN Failed(IF o.variant = "pynsc" THEN "-11" ELSE "ValueError", {})
    ELSE LET adv1 == ssn_advisory(o, d)
             dob == dob_column(o.variant, d)
         IN  IF dob.exc # "none" THEN Failed(dob.exc, adv1)
             ELSE LET adv2 == adv1 \cup column_advisories(d)
                      sbd == search_begin_column(o.variant, o.search, d)
                  IN  IF sbd.exc # "none" THEN Failed(sbd.exc, adv2)
                      ELSE LET working == [i \in 1..Len(d.rows) |->
                                              request_row(o, d, dob.value, sbd.value, i)]
                               emitted == SelectSeq(working, FirstName_notna)
                           IN  [exc |-> "none", r |-> emitted, h |-> header_line(o),
                                t |-> trailer_line(o.variant, working),
                                advisories |-> adv2]

\* a create_request that stores the tables of a failed build as well
create_request_partial(d) ==
    /\ obj.pc = "ready"
    /\ df' = d
    /\ LET res == create_request_result(obj, d)
       IN  obj' = [obj EXCEPT !.calls = obj.calls + 1, !.built = TRUE,
                              !.r = res.r, !.h = res.h, !.t = res.t,
                              !.result = IF res.exc # "none" THEN res.exc ELSE "ok",
                              !.returned = IF res.exc # "none" THEN res.exc ELSE "ok",
                              !.source = IF res.exc # "none" THEN obj.source ELSE d,
                              !.advisories = res.advisories]
    /\ UNCHANGED <<norm, outfile, csv, conv>>

\* obj.create_request(d).  obj.returned is how the call ended, obj.source the
\* frame of the last call that stored self.r, self.h and self.t
create_request(d) ==
    /\ obj.pc = "ready"
    /\ df' = d
    /\ LET res == create_request_result(obj, d)
       IN  obj' = IF res.exc # "none"
                  THEN [obj EXCEPT !.calls = obj.calls + 1, !.result = res.exc,
                                   !.returned = res.exc,
                                   !.advisories = res.advisories]
                  ELSE [obj EXCEPT !.calls = obj.calls + 1, !.built = TRUE,
                                   !.r = res.r, !.h = res.h,
                                   !.t = res.t, !.result = "ok",
                                   !.returned = "ok", !.source = d,
                                   !.advisories = res.advisories]
    /\ UNCHANGED <<norm, outfile, csv, conv>>

\* to_file(): open(..., 'w') and write self.h, then r.to_csv(mode='a'), then
\* self.t appended; without a stored self.h the write raises after the open
\* has emptied the file
\* a to_file that opens the file for appending
to_file_append ==
    /\ obj.pc = "ready"
    /\ IF obj.built
       THEN /\ outfile' = [written |-> TRUE,
                           lines |-> outfile.lines \o <<obj.h>> \o obj.r \o <<obj.t>>,
                           before |-> outfile.lines]
            /\ obj' = [obj EXCEPT !.result = "written"]
       ELSE /\ outfile' = [written |-> TRUE, lines |-> outfile.lines,
                           before |-> outfile.lines]
            /\ obj' = [obj EXCEPT !.result = "AttributeError"]
    /\ UNCHANGED <<norm, df, csv, conv>>

\* outfile.before is what the file held when to_file opened it
to_file ==
    /\ obj.pc = "ready"
    /\ IF obj.built
       THEN /\ outfile' = [written |-> TRUE, lines |-> <<obj.h>> \o obj.r \o <<obj.t>>,
                           before |-> outfile.lines]
            /\ obj' = [obj EXCEPT !.result = "written"]
       ELSE /\ outfile' = [written |-> TRUE, lines |-> <<>>, before |-> outfile.lines]
            /\ obj' = [obj EXCEPT !.result = "AttributeError"]
    /\ UNCHANGED <<norm, df, csv, conv>>

(***************************************************************************)
(* nsc_return_se_convert.  read_csv(fn, dtype=str) makes every cell a str  *)
(* or NaN; here a cell is a string and NaN is the string "NaN", NaT the    *)
(* string "NaT".  A row has the columns                                    *)
(*   LastName, MiddleInitial   'Last Name', 'Middle Initial' (First Name   *)
(*                             is used as Last Name is, Name Suffix as     *)
(*                             Middle Initial is)                          *)
(*   RRF, Found, SearchDate    'Requester Return Field',                   *)
(*                             'Record Found Y/N', 'Search Date'           *)
(*   CS, Begin, End            'College Sequence', 'Enrollment Begin/End'  *)
(*   Major1, Major2            'Enrollment Major 1/2' (CIP 1/2 alike)      *)
(*   Grad, DegreeTitle         'Graduated?', 'Degree Title' (the other     *)
(*                             degree columns are carried as it is)        *)
(* The counts 'Semesters at Institution' and 'Total Enrollment Days' are   *)
(* integers, with NaNInt for a missing number.                             *)
(***************************************************************************)
NaN == "NaN"
NaT == "NaT"
NaNInt == -1

\* pd.to_datetime(column, format='%Y%m%d') on the dates of the return files
to_datetime(s) ==
    CASE s = NaN -> NaT
      [] s = "20200101" -> "2020-01-01"
      [] s = "20200102" -> "2020-01-02"
      [] s = "20200104" -> "2020-01-04"
      [] s = "20200109" -> "2020-01-09"

\* the day of a Timestamp, counted from 2019-12-31
DayNumber(ts) ==
    CASE ts = "2020-01-01" -> 1
      [] ts = "2020-01-02" -> 2
      [] ts = "2020-01-04" -> 4
      [] ts = "2020-01-09" -> 9

\* (End - Begin).dt.days
EnrollmentDays(begin, end) ==
    IF begin = NaT \/ end = NaT THEN NaNInt ELSE DayNumber(end) - DayNumber(begin)

fillna(v, with) == IF v = NaN THEN with ELSE v

\* lines 22-23: students['Middle Initial'].fillna('')
fill_names(rows) ==
    [i \in 1..Len(rows) |-> [rows[i] EXCEPT !.MiddleInitial = fillna(@, "")]]

\* lines 26-29: the no-activity rows, columns up to 'Search Date' only
no_activity(students) ==
    LET sel == SelectSeq(students, LAMBDA x : x.Found = "N")
    IN  [i \in 1..Len(sel) |->
            [LastName |-> sel[i].LastName, MiddleInitial |-> sel[i].MiddleInitial,
             RRF |-> sel[i].RRF, Found |-> sel[i].Found,
             SearchDate |-> sel[i].SearchDate,
             CS |-> NaN, Begin |-> NaT, End |-> NaT, Major1 |-> NaN, Major2 |-> NaN,
             LastMajor1 |-> NaN, LastMajor2 |-> NaN,
             Semesters |-> NaNInt, TotalDays |-> NaNInt]]

\* lines 32-44: the found rows with parsed dates, day spans and Major 2 filled;
\* idx is the row label the frame keeps from read_csv
found_rows(students) ==
    LET labelled == [i \in 1..Len(students) |->
                        [idx |-> i, row |-> students[i]]]
        sel == SelectSeq(labelled, LAMBDA x : x.row.Found = "Y")
    IN  [i \in 1..Len(sel) |->
            LET x == sel[i].row
                b == to_datetime(x.Begin)
                e == to_datetime(x.End)
            IN  [idx |-> sel[i].idx,
                 LastName |-> x.LastName, MiddleInitial |-> x.MiddleInitial,
                 RRF |-> x.RRF, Found |-> x.Found, SearchDate |-> x.SearchDate,
                 CS |-> x.CS, Begin |-> b, End |-> e, Days |-> EnrollmentDays(b, e),
                 Major1 |-> x.Major1, Major2 |-> fillna(x.Major2, ""),
                 Grad |-> x.Grad, DegreeTitle |-> x.DegreeTitle]]

\* lines 48-59: the graduation rows, identity, College Sequence and degree columns
graduated_rows(found) ==
    LET sel == SelectSeq(found, LAMBDA x : x.Grad = "Y")
    IN  [i \in 1..Len(sel) |->
            [LastName |-> sel[i].LastName, MiddleInitial |-> sel[i].MiddleInitial,
             CS |-> sel[i].CS, Grad |-> sel[i].Grad,
             DegreeTitle |-> fillna(sel[i].DegreeTitle, "UNKNOWN")]]

\* line 63: students[students['Graduated?'] == 'N']
enrolled_rows(found) == SelectSeq(found, LAMBDA x : x.Grad = "N")

\* groupby(...) leaves out a row with a missing value in a key column (dropna=True)
FillKeyPresent(x) == x.LastName # NaN /\ x.MiddleInitial # NaN /\ x.RRF # NaN /\ x.Begin # NaT

SameFillGroup(x, y) ==
    /\ x.LastName = y.LastName /\ x.MiddleInitial = y.MiddleInitial
    /\ x.RRF = y.RRF /\ x.Begin = y.Begin

\* lines 74-75: groupby([... 'Requester Return Field', 'Enrollment Begin'])
\* ['College Sequence'].ffill(); a row outside every group gets NaN
ffill_college_sequence(rows) ==
    [i \in 1..Len(rows) |->
        LET x == rows[i]
            prev == {j \in 1..i : /\ FillKeyPresent(rows[j])
                                  /\ SameFillGroup(rows[j], x)
                                  /\ rows[j].CS # NaN}
        IN  [x EXCEPT !.CS = IF ~FillKeyPresent(x) THEN NaN
                             ELSE IF prev = {} THEN NaN
                             ELSE rows[CHOOSE j \in prev : \A k \in prev : k <= j].CS]]

PeriodKeyPresent(x) ==
    x.LastName # NaN /\ x.MiddleInitial # NaN /\ x.RRF # NaN /\ x.CS # NaN

SamePeriod(x, y) ==
    /\ x.LastName = y.LastName /\ x.MiddleInitial = y.MiddleInitial
    /\ x.RRF = y.RRF /\ x.CS = y.CS

\* the positions of the rows grouped with row i
PeriodGroup(rows, i) ==
    IF PeriodKeyPresent(rows[i])
    THEN {j \in 1..Len(rows) : PeriodKeyPresent(rows[j]) /\ SamePeriod(rows[j], rows[i])}
    ELSE {}

MaxOf(S) == CHOOSE m \in S : \A k \in S : k <= m
MinOf(S) == CHOOSE m \in S : \A k \in S : m <= k

RECURSIVE SumOf(_, _)
SumOf(f, S) ==
    IF S = {} THEN 0
    ELSE LET j == CHOOSE k \in S : TRUE IN f[j] + SumOf(f, S \ {j})

\* transform('count'): the number of present values of the group
group_count(rows, g) == Cardinality({j \in g : rows[j].Begin # NaT})

\* cumcount() + 1; NaN for a row that is in no group
semester_index(rows, i) ==
    IF PeriodGroup(rows, i) = {} THEN NaNInt
    ELSE Cardinality({j \in PeriodGroup(rows, i) : j < i}) + 1

\* the Enrollment Begin of the first row of the group, without the transform
group_first_begin(rows, g) ==
    rows[CHOOSE j \in g : \A k \in g : j <= k].Begin

\* transform('min') and transform('max') of a date column
group_min_begin(rows, g) ==
    LET present == {j \in g : rows[j].Begin # NaT}
    IN  IF present = {} THEN NaT
        ELSE rows[CHOOSE j \in present :
                     \A k \in present : DayNumber(rows[j].Begin) <= DayNumber(rows[k].Begin)].Begin

group_max_end(rows, g) ==
    LET present == {j \in g : rows[j].End # NaT}
    IN  IF present = {} THEN NaT
        ELSE rows[CHOOSE j \in present :
                     \A k \in present : DayNumber(rows[k].End) <= DayNumber(rows[j].End)].End

\* transform('sum') of 'Enrollment Days', missing spans skipped
group_sum_days(rows, g) ==
    SumOf([j \in 1..Len(rows) |-> rows[j].Days], {j \in g : rows[j].Days # NaNInt})

\* transform('last'): the last present value of the group
group_last(rows, g, col) ==
    LET present == {j \in g : rows[j][col] # NaN}
    IN  IF present = {} THEN NaN ELSE rows[MaxOf(present)][col]

\* lines 79-96: the aggregates of the period, written on every row of it
aggregate_periods(rows) ==
    [i \in 1..Len(rows) |->
        LET x == rows[i]
            g == PeriodGroup(rows, i)
        IN  [idx |-> x.idx,
             LastName |-> x.LastName, MiddleInitial |-> x.MiddleInitial,
             RRF |-> x.RRF, Found |-> x.Found, SearchDate |-> x.SearchDate,
             CS |-> x.CS,
             Begin |-> IF g = {} THEN NaT ELSE group_min_begin(rows, g),
             End |-> IF g = {} THEN NaT ELSE group_max_end(rows, g),
             Major1 |-> x.Major1, Major2 |-> x.Major2,
             LastMajor1 |-> IF g = {} THEN NaN ELSE group_last(rows, g, "Major1"),
             LastMajor2 |-> IF g = {} THEN NaN ELSE group_last(rows, g, "Major2"),
             Semesters |-> IF g = {} THEN NaNInt ELSE group_count(rows, g),
             TotalDays |-> IF g = {} THEN NaNInt ELSE group_sum_days(rows, g),
             SemesterIndex |-> semester_index(rows, i)]]

\* lines 97-99: the first row of each period, working columns dropped
Representative(x) ==
    [LastName |-> x.LastName, MiddleInitial |-> x.MiddleInitial,
     RRF |-> x.RRF, Found |-> x.Found, SearchDate |-> x.SearchDate,
     CS |-> x.CS, Begin |-> x.Begin, End |-> x.End,
     Major1 |-> x.Major1, Major2 |-> x.Major2,
     LastMajor1 |-> x.LastMajor1, LastMajor2 |-> x.LastMajor2,
     Semesters |-> x.Semesters, TotalDays |-> x.TotalDays]

first_of_period(agg) ==
    LET sel == SelectSeq(agg, LAMBDA x : x.SemesterIndex = 1)
    IN  [i \in 1..Len(sel) |-> Representative(sel[i])]

\* pd.merge matches a missing key with a missing key
MergeKeyEqual(x, g) ==
    /\ x.LastName = g.LastName /\ x.MiddleInitial = g.MiddleInitial /\ x.CS = g.CS

WithDegree(x, grad, title) ==
    [LastName |-> x.LastName, MiddleInitial |-> x.MiddleInitial,
     RRF |-> x.RRF, Found |-> x.Found, SearchDate |-> x.SearchDate,
     CS |-> x.CS, Begin |-> x.Begin, End |-> x.End,
     Major1 |-> x.Major1, Major2 |-> x.Major2,
     LastMajor1 |-> x.LastMajor1, LastMajor2 |-> x.LastMajor2,
     Semesters |-> x.Semesters, TotalDays |-> x.TotalDays,
     Grad |-> grad, DegreeTitle |-> title]

\* a join that keeps one match for each left row
merge_row_first(x, graduated) ==
    LET hits == SelectSeq(graduated, LAMBDA g : MergeKeyEqual(x, g))
    IN  IF hits = <<>> THEN <<WithDegree(x, NaN, NaN)>>
        ELSE <<WithDegree(x, hits[1].Grad, hits[1].DegreeTitle)>>

\* the rows the left join makes of one left row
merge_row(x, graduated) ==
    LET hits == SelectSeq(graduated, LAMBDA g : MergeKeyEqual(x, g))
    IN  IF hits = <<>> THEN <<WithDegree(x, NaN, NaN)>>
        ELSE [k \in 1..Len(hits) |-> WithDegree(x, hits[k].Grad, hits[k].DegreeTitle)]

\* line 104: pd.merge(students, graduated, how='left', on=[identity, 'College Sequence'])
RECURSIVE merge_left(_, _)
merge_left(left, graduated) ==
    IF left = <<>> THEN <<>>
    ELSE merge_row(Head(left), graduated) \o merge_left(Tail(left), graduated)

\* line 106
fill_graduated(rows) ==
    [i \in 1..Len(rows) |-> [rows[i] EXCEPT !.Grad = fillna(@, "N")]]

\* the order of Python on the strings of the return files
StringOrder == <<"", "0", "1", "2", "A", "B", "r1", "r2">>
Rank(v) == CHOOSE k \in 1..Len(StringOrder) : StringOrder[k] = v

\* -1, 0, 1 as a sort key compares, missing values last
CompareCell(a, b) ==
    IF a = b THEN 0
    ELSE IF a = NaN THEN 1
    ELSE IF b = NaN THEN -1
    ELSE IF Rank(a) < Rank(b) THEN -1 ELSE 1

SortColumns == <<"LastName", "MiddleInitial", "RRF", "CS">>

RECURSIVE CompareFrom(_, _, _)
CompareFrom(x, y, k) ==
    IF k > Len(SortColumns) THEN 0
    ELSE LET c == CompareCell(x[SortColumns[k]], y[SortColumns[k]])
         IN  IF c # 0 THEN c ELSE CompareFrom(x, y, k + 1)

RowBefore(x, y) == CompareFrom(x, y, 1) < 0

\* x goes behind every row that is not after it: the sort is stable
RECURSIVE insert_sorted(_, _)
insert_sorted(sorted, x) ==
    IF sorted = <<>> THEN <<x>>
    ELSE IF RowBefore(x, Head(sorted)) THEN <<x>> \o sorted
    ELSE <<Head(sorted)>> \o insert_sorted(Tail(sorted), x)

\* the rows left in the order of the join
sort_values_none(rows) == rows

\* lines 119-120: sort_values([identity, 'Requester Return Field', 'College Sequence'])
RECURSIVE sort_values(_)
sort_values(rows) ==
    IF rows = <<>> THEN <<>>
    ELSE insert_sorted(sort_values(SubSeq(rows, 1, Len(rows) - 1)), rows[Len(rows)])

fillna_int(v, with) == IF v = NaNInt THEN with ELSE v
fillna_date(v, with) == IF v = NaT THEN with ELSE v

\* lines 139-144: 0 for the three counts, '' for every other missing cell; the
\* 0 put into the text column 'College Sequence' is written "0"
fill_missing(rows) ==
    [i \in 1..Len(rows) |->
        LET x == rows[i]
        IN  [LastName |-> fillna(x.LastName, ""),
             MiddleInitial |-> fillna(x.MiddleInitial, ""),
             RRF |-> fillna(x.RRF, ""), Found |-> fillna(x.Found, ""),
             SearchDate |-> fillna(x.SearchDate, ""),
             CS |-> fillna(x.CS, "0"),
             Begin |-> fillna_date(x.Begin, ""), End |-> fillna_date(x.End, ""),
             Major1 |-> fillna(x.Major1, ""), Major2 |-> fillna(x.Major2, ""),
             LastMajor1 |-> fillna(x.LastMajor1, ""),
             LastMajor2 |-> fillna(x.LastMajor2, ""),
             Semesters |-> fillna_int(x.Semesters, 0),
             TotalDays |-> fillna_int(x.TotalDays, 0),
             Grad |-> fillna(x.Grad, ""), DegreeTitle |-> fillna(x.DegreeTitle, "")]]

\* nsc_return_se_convert(fn), with the tables it goes through
nsc_return_se_convert ==
    /\ conv.pc = "idle"
    /\ LET students == fill_names(csv)
           no_act == no_activity(students)
           found == found_rows(students)
           graduated == graduated_rows(found)
           filled == ffill_college_sequence(enrolled_rows(found))
           periods == first_of_period(aggregate_periods(filled))
           joined == fill_graduated(merge_left(periods \o no_act, graduated))
       IN  conv' = [pc |-> "returned", graduated |-> graduated, filled |-> filled,
                    periods |-> periods, no_act |-> no_act,
                    out |-> fill_missing(sort_values(joined))]
    /\ UNCHANGED <<norm, obj, df, outfile, csv>>

(***************************************************************************)
(* The data frames create_request is called with.  A row is the base row   *)
(* with at most one cell changed; a column that the frame does not have    *)
(* holds a placeholder the model never reads.                              *)
(***************************************************************************)
MaxRows == 2

AllColumns == RequiredColumns \cup OptionalColumns

BaseRow ==
    [FirstName |-> <<"a">>, MiddleInitial |-> <<"M">>, LastName |-> <<"L">>,
     Suffix |-> <<"J">>, DOB |-> DateCell(<<2000, 1, 2>>), SSN |-> <<"9">>,
     SearchBeginDate |-> DateCell(<<2020, 8, 15>>),
     ReturnRequestField |-> <<"i", " ">>]

FirstNameValues == {NA, <<>>, <<" ">>, <<"U+00E9">>}
DobValues == {StrCell(<<"2", "0", "0", "0", "0", "3", "0", "4">>),
              StrCell(<<"2", "0", "0", "0">>), NullCell}
SearchBeginValues == {StrCell(<<"2", "0", "2", "0", "0", "1", "1", "0">>),
                      StrCell(<<"2", "0", "2", "0">>)}

SsnValues == {<<"8">>}

InputRows ==
    {BaseRow}
    \cup {[BaseRow EXCEPT !.SSN = v] : v \in SsnValues}
    \cup {[BaseRow EXCEPT !.FirstName = v] : v \in FirstNameValues}
    \cup {[BaseRow EXCEPT !.DOB = v] : v \in DobValues}
    \cup {[BaseRow EXCEPT !.SearchBeginDate = v] : v \in SearchBeginValues}

RECURSIVE TablesUpTo(_, _)
TablesUpTo(rows, n) ==
    IF n = 0 THEN {<<>>}
    ELSE LET shorter == TablesUpTo(rows, n - 1)
         IN  shorter \cup {Append(t, x) : t \in {y \in shorter : Len(y) = n - 1},
                                          x \in rows}

ColumnSets ==
    {AllColumns, RequiredColumns, {}}
    \cup {AllColumns \ {c} : c \in AllColumns}

Placeholder(c) == IF c \in {"DOB", "SearchBeginDate"} THEN NullCell ELSE <<>>

DataFrame(cols, rows) ==
    [columns |-> cols,
     rows |-> [i \in 1..Len(rows) |->
                  [c \in AllColumns |-> IF c \in cols THEN rows[i][c]
                                        ELSE Placeholder(c)]]]

DataFrames ==
    {DataFrame(cols, rows) : cols \in ColumnSets, rows \in TablesUpTo(InputRows, MaxRows)}

NoDataFrame == [columns |-> {}, rows |-> <<>>]
NoFile == [written |-> FALSE, lines |-> <<>>, before |-> <<>>]
ConvIdle == [pc |-> "idle", graduated |-> <<>>, filled |-> <<>>, periods |-> <<>>,
             no_act |-> <<>>, out |-> <<>>]

InquiryTypes == {"", "PA", "SE"}
EnrolledValues == {"None", "True", "False"}

Init ==
    /\ norm = NormIdle
    /\ obj = NoObject
    /\ df = NoDataFrame
    /\ outfile = NoFile
    /\ csv = <<>>
    /\ conv = ConvIdle

NewRequest ==
    \E variant \in Variants, inquiryType \in InquiryTypes,
       search \in {<<>>, <<"2", "0", "2", "0">>},
       enrolledStudents \in EnrolledValues :
        Construct(variant, inquiryType, search, enrolledStudents)

\* the first create_request call on the object
FirstCreateRequest ==
    /\ obj.calls = 0
    /\ \E d \in DataFrames : create_request(d)

Next == NewRequest \/ FirstCreateRequest \/ to_file

Spec == Init /\ [][Next]_vars

(***************************************************************************)
(* The constructor alone, over every search string of the search alphabet. *)
(***************************************************************************)
SearchInputs == StringsUpTo(SearchAlphabet, MaxSearchLen) \cup SearchExamples

NewRequestWithSearch ==
    \E variant \in Variants, search \in SearchInputs :
        Construct(variant, "", search, "None")

NextSearch == NewRequestWithSearch

SpecSearch == Init /\ [][NextSearch]_vars

(***************************************************************************)
(* Field normalisation alone.                                              *)
(***************************************************************************)
InitNorm ==
    /\ norm \in {[NormIdle EXCEPT !.pc = "input", !.value = s, !.limit = n] :
                    s \in StringsUpTo(NameAlphabet, MaxStrLen), n \in FieldLimits}
    /\ obj = NoObject
    /\ df = NoDataFrame
    /\ outfile = NoFile
    /\ csv = <<>>
    /\ conv = ConvIdle

NextNorm == NormalizeField \/ NormalizeAgain

SpecNorm == InitNorm /\ [][NextNorm]_vars

(***************************************************************************)
(* The return files nsc_return_se_convert is given: up to MaxReturnRows    *)
(* rows of students A and B, searched under the return fields r1 and r2.   *)
(***************************************************************************)
MaxReturnRows == 3

EnrollmentRow(last, mi, rrf, cs, begin, end, major1, grad) ==
    [LastName |-> last, MiddleInitial |-> mi, RRF |-> rrf, Found |-> "Y",
     SearchDate |-> "20190101", CS |-> cs, Begin |-> begin, End |-> end,
     Major1 |-> major1, Major2 |-> NaN, Grad |-> grad, DegreeTitle |-> NaN]

GraduationRow(last, mi, rrf, cs, title) ==
    [LastName |-> last, MiddleInitial |-> mi, RRF |-> rrf, Found |-> "Y",
     SearchDate |-> "20190101", CS |-> cs, Begin |-> NaN, End |-> NaN,
     Major1 |-> NaN, Major2 |-> NaN, Grad |-> "Y", DegreeTitle |-> title]

NoActivityRow(last, mi, rrf) ==
    [LastName |-> last, MiddleInitial |-> mi, RRF |-> rrf, Found |-> "N",
     SearchDate |-> "20190101", CS |-> NaN, Begin |-> NaN, End |-> NaN,
     Major1 |-> NaN, Major2 |-> NaN, Grad |-> NaN, DegreeTitle |-> NaN]

EnrollmentSpans == {<<"20200101", "20200102">>, <<"20200104", "20200109">>}

ReturnRows ==
    {EnrollmentRow("A", "", "r1", cs, span[1], span[2], "m1", "N") :
        cs \in {NaN, "1", "2"}, span \in EnrollmentSpans}
    \cup {EnrollmentRow("A", "", "r2", "1", "20200101", "20200102", "m1", "N"),
          EnrollmentRow("A", "", "r1", "1", "20200104", "20200109", NaN, "N"),
          EnrollmentRow("A", "", NaN, "1", "20200101", "20200102", "m1", "N"),
          EnrollmentRow("A", "", "r1", "1", "20200101", "20200102", "m1", NaN)}
    \cup {EnrollmentRow("B", NaN, "r1", cs, "20200101", "20200102", "m2", "N") :
             cs \in {NaN, "1"}}
    \cup {GraduationRow("A", "", rrf, "1", "BA") : rrf \in {"r1", "r2"}}
    \cup {GraduationRow("A", "", "r1", NaN, "BA"),
          GraduationRow("A", "", "r1", "1", NaN),
          GraduationRow("B", "", "r1", "1", "BA")}
    \cup {NoActivityRow("A", "", "r1"), NoActivityRow("A", "", "r2"),
          NoActivityRow("B", NaN, "r1")}

\* the clearinghouse writes one more row of the return file
ReturnRow ==
    /\ conv.pc = "idle"
    /\ Len(csv) < MaxReturnRows
    /\ \E x \in ReturnRows : csv' = Append(csv, x)
    /\ UNCHANGED <<norm, obj, df, outfile, conv>>

NextConvert == ReturnRow \/ nsc_return_se_convert

SpecConvert == Init /\ [][NextConvert]_vars

(***************************************************************************)
(* One request object used for several create_request and to_file calls.   *)
(***************************************************************************)
MaxCalls == 2

CallFrames ==
    { DataFrame(AllColumns, <<BaseRow>>),
      DataFrame(AllColumns, <<[BaseRow EXCEPT !.FirstName = NA], BaseRow>>),
      DataFrame(AllColumns, <<[BaseRow EXCEPT !.SSN = <<"8">>], BaseRow>>),
      DataFrame(RequiredColumns, <<[BaseRow EXCEPT !.FirstName = <<"a", "a">>]>>),
      DataFrame(AllColumns, <<>>),
      DataFrame(AllColumns \ {"Suffix"}, <<BaseRow>>),
      DataFrame(AllColumns,
                <<BaseRow, [BaseRow EXCEPT !.DOB = StrCell(<<"2", "0", "0", "0">>)]>>),
      DataFrame(AllColumns,
                <<[BaseRow EXCEPT !.DOB = StrCell(<<"2", "0", "0", "0">>)]>>) }

NewRequestForCalls ==
    \E variant \in Variants : Construct(variant, "PA", <<>>, "False")

\* one more create_request call on the object
NextCreateRequest ==
    /\ obj.calls < MaxCalls
    /\ \E d \in CallFrames : create_request(d)

NextCalls == NewRequestForCalls \/ NextCreateRequest \/ to_file

SpecCalls == Init /\ [][NextCalls]_vars

(***************************************************************************)
(* Claims about the request builder.                                       *)
(***************************************************************************)

\* C1: after a successful create_request the count of the trailer line equals
\* the number of body rows of the emitted record table, the rows to_file
\* writes between the header and the trailer.
C1_TrailerCountIsBodyRows ==
    /\ obj.built => obj.t.count = Len(obj.r)
    /\ (outfile.written /\ outfile.lines # <<>>) =>
          outfile.lines[Len(outfile.lines)].count = Len(outfile.lines) - 2

\* C2: no row of the emitted record table has a FirstName that is undefined or
\* empty after normalisation.
C2_NoEmptyFirstNameEmitted ==
    obj.built => \A i \in 1..Len(obj.r) :
                    obj.r[i].FirstName # NA /\ obj.r[i].FirstName # <<>>

IsYearMonth(s) ==
    Len(s) = 7 /\ s[5] = "-" /\ \A i \in {1, 2, 3, 4, 6, 7} : IsDigit(s[i])

IsYearMonthDay(s) ==
    /\ Len(s) = 10 /\ s[5] = "-" /\ s[8] = "-"
    /\ \A i \in {1, 2, 3, 4, 6, 7, 9, 10} : IsDigit(s[i])

\* the expansion the documentation of `search' describes
ExpectedSearch(s) ==
    IF Len(s) = 4 THEN s \o <<"0", "1", "0", "1">>
    ELSE IF Len(s) = 6 THEN s \o <<"0", "1">>
    ELSE IF IsYearMonth(s) THEN SubSeq(s, 1, 4) \o SubSeq(s, 6, 7) \o <<"0", "1">>
    ELSE IF IsYearMonthDay(s) THEN SubSeq(s, 1, 4) \o SubSeq(s, 6, 7) \o SubSeq(s, 9, 10)
    ELSE s

\* C10: constructing an NSCRequest with a non-empty search raises no error and
\* stores YYYY as YYYY0101, YYYYMM as YYYYMM01, YYYY-MM as YYYYMM01,
\* YYYY-MM-DD as YYYYMMDD and a search of any other length unchanged.
C10_SearchExpanded ==
    (/\ obj.pc # "new"
     /\ obj.variant = "studentclearinghouse"
     /\ obj.arg # <<>>
     /\ (Len(obj.arg) \in {7, 10} => IsYearMonth(obj.arg) \/ IsYearMonthDay(obj.arg)))
    => /\ obj.pc = "ready"
       /\ obj.search = ExpectedSearch(obj.arg)

IdentityColumns == {"FirstName", "MiddleInitial", "LastName", "Suffix", "DOB"}

\* how a create_request that does not build ends: ValueError raised, or the
\* codes -1 and -11 returned by the pynsc variant
ValidationErrors == {"ValueError", "-1", "-11"}

\* C11: create_request on an empty table, or on a table without one of the
\* columns FirstName, MiddleInitial, LastName, Suffix, DOB, ends with a
\* validation error and stores no record table, header or trailer; it does
\* not go on with a defaulted MiddleInitial or Suffix.
C11_MissingInputFails ==
    (/\ obj.calls > 0
     /\ (df.rows = <<>> \/ \E c \in IdentityColumns : c \notin df.columns))
    => /\ obj.returned \in ValidationErrors
       /\ ~obj.built
       /\ obj.r = <<>> /\ obj.h = <<>> /\ obj.t = <<>>

\* a frame with rows and every column but MiddleInitial was refused
C11_Witness ==
    /\ obj.calls = 1
    /\ df.rows # <<>>
    /\ IdentityColumns \ df.columns = {"MiddleInitial"}
    /\ obj.variant = "studentclearinghouse"
    /\ obj.returned = "ValueError"
    /\ ~obj.built

\* the input rows of the emitted records, in their order
EmittedSource == SelectSeq(df.rows, LAMBDA x : x.FirstName # NA)

\* C12: every emitted record has the SSN of its input row when inquiryType is
\* "PA", enrolledStudents is False and the table has an SSN column, and the
\* empty string in every other case, enrolledStudents left unset included.
C12_SsnOnlyForPriorAttendance ==
    (obj.calls > 0 /\ obj.returned = "ok") =>
        /\ Len(obj.r) = Len(EmittedSource)
        /\ \A i \in 1..Len(obj.r) :
              obj.r[i].SSN =
                 IF /\ obj.inquiryType = "PA"
                    /\ obj.enrolledStudents = "False"
                    /\ "SSN" \in df.columns
                 THEN EmittedSource[i].SSN
                 ELSE <<>>

\* a PA request for students not enrolled emitted two different SSNs
C12_Witness ==
    /\ obj.returned = "ok"
    /\ obj.inquiryType = "PA" /\ obj.enrolledStudents = "False"
    /\ Len(obj.r) = 2
    /\ obj.r[1].SSN = <<"8">> /\ obj.r[2].SSN = <<"9">>

\* a cell that is neither date-typed nor a string that parses as YYYYMMDD
NotADate(x) == x.type # "date" /\ ~(x.type = "str" /\ ParsesYmd(x.text))

\* the frame passed the tests of the table and of its columns
FrameAccepted == df.rows # <<>> /\ IdentityColumns \subseteq df.columns

\* C13: when some DOB value is neither date-typed nor a string that parses as
\* YYYYMMDD, create_request fails and stores no record table, wherever the
\* value is in the column and whatever the first element of the column is.
C13_BadDobFailsBuild ==
    (/\ obj.calls > 0
     /\ FrameAccepted
     /\ \E i \in 1..Len(df.rows) : NotADate(df.rows[i].DOB))
    => obj.returned # "ok" /\ ~obj.built

\* the lines to_file writes for the tables of one successful build of frame d
FileOfBuild(d) ==
    LET res == create_request_result(obj, d)
    IN  IF res.exc = "none" THEN <<res.h>> \o res.r \o <<res.t>> ELSE <<>>

\* the record table, header and trailer of the object are those of one
\* successful build, of the frame obj.source, or there are none
TablesOfOneBuild ==
    IF obj.built
    THEN LET res == create_request_result(obj, obj.source)
         IN  /\ res.exc = "none"
             /\ obj.r = res.r /\ obj.h = res.h /\ obj.t = res.t
    ELSE obj.r = <<>> /\ obj.h = <<>> /\ obj.t = <<>>

\* C16: the record table, the header and the trailer of the object are always
\* those of one successful build, the last one, so that a create_request call
\* that fails leaves the three as they were; what to_file has written is the
\* file of one successful build or nothing.
C16_FailedCallKeepsTables ==
    /\ TablesOfOneBuild
    /\ outfile.lines # <<>> =>
          \E d \in CallFrames : outfile.lines = FileOfBuild(d)

\* a failed call after a successful one, and the file written after it
C16_Witness ==
    /\ obj.calls = 2
    /\ obj.returned = "ValueError"
    /\ obj.built /\ obj.r # <<>>
    /\ df # obj.source
    /\ outfile.written
    /\ outfile.lines = <<obj.h>> \o obj.r \o <<obj.t>>

\* C17: when the table has an SSN column and create_request does not copy it
\* into the records, the notice about the ignored SSN is issued, whatever
\* inquiryType and enrolledStudents are.
C17_SuppressedSsnAdvised ==
    (/\ obj.calls > 0 /\ obj.returned = "ok"
     /\ "SSN" \in df.columns
     /\ \E i \in 1..Len(obj.r) : obj.r[i].SSN # EmittedSource[i].SSN)
    => "SSN ignored" \in obj.advisories

\* the records have the SearchBeginDate values the claim describes
SearchBeginCoerced ==
    \A i \in 1..Len(obj.r) :
        obj.r[i].SearchBeginDate =
           IF "SearchBeginDate" \notin df.columns THEN StrCell(obj.search)
           ELSE IF EmittedSource[i].SearchBeginDate.type = "date"
           THEN StrCell(strftime_Ymd(EmittedSource[i].SearchBeginDate.ymd))
           ELSE EmittedSource[i].SearchBeginDate

\* C18: without a SearchBeginDate column every record gets the search value of
\* the request; with one, a date-typed value is emitted as YYYYMMDD and a
\* string that does not parse as YYYYMMDD makes create_request fail.
C18_SearchBeginDateCoerced ==
    (obj.calls > 0 /\ FrameAccepted) =>
        /\ obj.returned = "ok" => SearchBeginCoerced
        /\ ("SearchBeginDate" \in df.columns
            /\ \E i \in 1..Len(df.rows) :
                  /\ df.rows[i].SearchBeginDate.type = "str"
                  /\ ~ParsesYmd(df.rows[i].SearchBeginDate.text))
           => obj.returned # "ok"

\* the input rows of the records of the last successful build, in their order
BuiltSource == SelectSeq(obj.source.rows, LAMBDA x : x.FirstName # NA)

\* C19: after a to_file the file is the header line, then the records of the
\* most recent successful create_request in the order of its input rows, then
\* the trailer line, and nothing of what the file held before.
C19_FileIsHeaderBodyTrailer ==
    obj.result = "written" =>
        LET n == Len(outfile.lines)
        IN  /\ n = Len(obj.r) + 2
            /\ outfile.lines[1] = obj.h /\ outfile.lines[1].RecordType = "H1"
            /\ outfile.lines[n] = obj.t /\ outfile.lines[n].RecordType = "T1"
            /\ Len(obj.r) = Len(BuiltSource)
            /\ \A i \in 1..Len(obj.r) :
                  /\ outfile.lines[i + 1] = obj.r[i]
                  /\ outfile.lines[i + 1].RecordType = "D1"
                  /\ obj.r[i].SSN = BuiltSource[i].SSN
                  /\ obj.r[i].FirstName =
                        truncate_trim_ascii(BuiltSource[i].FirstName, FirstNameLimit)

\* a second to_file, after a second build with two different records, over
\* the file of the first
C19_Witness ==
    /\ obj.result = "written"
    /\ obj.calls = 2
    /\ outfile.before # <<>>
    /\ outfile.before # outfile.lines
    /\ Len(obj.r) = 2
    /\ obj.r[1].SSN = <<"8">> /\ obj.r[2].SSN = <<"9">>

(***************************************************************************)
(* Claims about field normalisation.                                       *)
(***************************************************************************)

\* C7: normalising the result of a normalisation again, with the same limit,
\* returns it unchanged.
C7_NormalizeIdempotent ==
    norm.pc = "renormalized" => norm.again = norm.out

\* trim, then truncate, then drop the non-ASCII characters
ReferenceNormalize(s, n) == str_encode_decode(str_slice(str_strip(s), n))

\* C8: the normalisation of a field equals trimming, then truncating to the
\* limit, then dropping the non-ASCII characters.
C8_TrimBeforeTruncate ==
    norm.pc # "input" => norm.out = ReferenceNormalize(norm.value, norm.limit)

AsciiPositions(x) == {i \in 1..Len(x) : Ord(x[i]) < 128}

\* C9: the ASCII filtering step outputs exactly the ASCII characters of its
\* input, each once, in their original relative order, and nothing else.
C9_AsciiFilterKeepsOrder ==
    norm.pc # "input" =>
        LET x == norm.stripped
            P == AsciiPositions(x)
        IN  /\ Len(norm.out) = Cardinality(P)
            /\ \A i \in P : norm.out[Cardinality({j \in P : j <= i})] = x[i]
            /\ \A k \in 1..Len(norm.out) : Ord(norm.out[k]) < 128

\* a filtered string with ASCII characters on both sides of a removed one
C9_Witness ==
    /\ norm.pc = "normalized"
    /\ \E i, j, k \in 1..Len(norm.stripped) :
          /\ i < j /\ j < k
          /\ norm.stripped[i] = "a"
          /\ Ord(norm.stripped[j]) >= 128
          /\ norm.stripped[k] = " "
    /\ Len(norm.out) < Len(norm.stripped)

(***************************************************************************)
(* Claims about nsc_return_se_convert.  conv.filled holds the found,       *)
(* non-graduated rows after the fill-forward of College Sequence,          *)
(* conv.graduated the graduation rows, conv.no_act the no-activity rows    *)
(* and conv.out the returned table.                                        *)
(***************************************************************************)
Returned == conv.pc = "returned"

OutIndex == 1..Len(conv.out)

\* the output rows that carry the period key of x
OutRowsOfPeriod(x) ==
    {k \in OutIndex : /\ conv.out[k].Found = "Y"
                      /\ conv.out[k].LastName = x.LastName
                      /\ conv.out[k].MiddleInitial = x.MiddleInitial
                      /\ conv.out[k].RRF = x.RRF
                      /\ conv.out[k].CS = x.CS}

\* the output rows of the no-activity rows with the identity and return field of x
OutRowsOfNoActivity(x) ==
    {k \in OutIndex : /\ conv.out[k].Found = "N"
                      /\ conv.out[k].LastName = x.LastName
                      /\ conv.out[k].MiddleInitial = x.MiddleInitial
                      /\ conv.out[k].RRF = fillna(x.RRF, "")}

\* the rows of conv.filled that have a period key
PeriodRows == {i \in 1..Len(conv.filled) : PeriodKeyPresent(conv.filled[i])}

\* the graduation rows with the identity and College Sequence of x
GraduationsOf(x) ==
    {j \in 1..Len(conv.graduated) :
        /\ conv.graduated[j].LastName = x.LastName
        /\ conv.graduated[j].MiddleInitial = x.MiddleInitial
        /\ conv.graduated[j].CS = x.CS}

OutputIsOfAPeriod(k) ==
    \E i \in PeriodRows : k \in OutRowsOfPeriod(conv.filled[i])

AtLeastOne(n) == IF n = 0 THEN 1 ELSE n

\* the no-activity rows that are the same as row i
SameNoActivity(i) ==
    {j \in 1..Len(conv.no_act) : conv.no_act[j] = conv.no_act[i]}

RowsOfOutput(k) ==
    {i \in PeriodRows : k \in OutRowsOfPeriod(conv.filled[i])}

Span(x) == DayNumber(x.End) - DayNumber(x.Begin)

\* C4: an output period has the least Enrollment Begin and the greatest
\* Enrollment End of its rows, the sum of their day spans as Total Enrollment
\* Days and their number as Semesters at Institution.
C4_PeriodAggregates ==
    Returned =>
        \A k \in OutIndex : conv.out[k].Found = "Y" =>
            LET g == RowsOfOutput(k)
                x == conv.out[k]
            IN  /\ g # {}
                /\ \E i \in g : conv.filled[i].Begin = x.Begin
                /\ \A i \in g : DayNumber(x.Begin) <= DayNumber(conv.filled[i].Begin)
                /\ \E i \in g : conv.filled[i].End = x.End
                /\ \A i \in g : DayNumber(conv.filled[i].End) <= DayNumber(x.End)
                /\ x.TotalDays = SumOf([i \in 1..Len(conv.filled) |-> Span(conv.filled[i])], g)
                /\ x.Semesters = Cardinality(g)

\* two rows of one period, the later semester first in the file
C4_Witness ==
    /\ Returned
    /\ \E k \in OutIndex :
          /\ conv.out[k].Found = "Y"
          /\ conv.out[k].Semesters = 2
          /\ conv.out[k].Begin = "2020-01-01"
          /\ conv.out[k].End = "2020-01-09"
          /\ conv.out[k].TotalDays = 6
          /\ \E i, j \in RowsOfOutput(k) :
                i < j /\ conv.filled[i].Begin = "2020-01-04"
                      /\ conv.filled[j].Begin = "2020-01-01"

\* C5: a no-activity row appears exactly once in the output, matches no
\* graduation row in the join, and has only its identity, return field,
\* found flag and search date populated.
C5_NoActivityPassedThrough ==
    Returned =>
        /\ \A i \in 1..Len(conv.no_act) :
              Cardinality(OutRowsOfNoActivity(conv.no_act[i]))
                 = Cardinality(SameNoActivity(i))
        /\ \A k \in OutIndex : conv.out[k].Found = "N" =>
              /\ \E i \in 1..Len(conv.no_act) : k \in OutRowsOfNoActivity(conv.no_act[i])
              /\ conv.out[k].Grad = "N" /\ conv.out[k].DegreeTitle = ""
              /\ conv.out[k].CS = "0" /\ conv.out[k].Semesters = 0
              /\ conv.out[k].TotalDays = 0
              /\ conv.out[k].Begin = "" /\ conv.out[k].End = ""
              /\ conv.out[k].Major1 = "" /\ conv.out[k].LastMajor1 = ""

\* C6: degree fields appear only on the enrollment period with the identity and
\* College Sequence of the graduation row they come from; a period without
\* such a graduation row has Graduated? = "N" and empty degree fields.
C6_DegreeOnlyOnMatchingPeriod ==
    Returned =>
        \A k \in OutIndex :
            LET x == conv.out[k]
            IN  /\ (x.Grad = "Y" \/ x.DegreeTitle # "") =>
                      /\ x.Found = "Y"
                      /\ \E j \in GraduationsOf(x) :
                            /\ conv.graduated[j].Grad = x.Grad
                            /\ conv.graduated[j].DegreeTitle = x.DegreeTitle
                /\ (x.Found = "Y" /\ GraduationsOf(x) = {}) =>
                      x.Grad = "N" /\ x.DegreeTitle = ""

\* the last row, in file order, of the rows aggregated into output row k
LastRowOf(k) == conv.filled[MaxOf(RowsOfOutput(k))]

\* C14: the Last Enrollment Major 1 and 2 of an output period are the values of
\* the one row that is last in file order among the rows of the period, also
\* when that row has no Major 1 and when it is not the latest by date.
C14_LastValuesOfLastRow ==
    Returned =>
        \A k \in OutIndex : (conv.out[k].Found = "Y" /\ RowsOfOutput(k) # {}) =>
            /\ conv.out[k].LastMajor1 = fillna(LastRowOf(k).Major1, "")
            /\ conv.out[k].LastMajor2 = fillna(LastRowOf(k).Major2, "")

\* the found, non-graduated rows as they are before the fill-forward
BeforeFill == enrolled_rows(found_rows(fill_names(csv)))

\* the rows before row i that share its fill-forward key and have a College Sequence
FillSources(i) ==
    {j \in 1..(i - 1) : /\ SameFillGroup(BeforeFill[j], BeforeFill[i])
                        /\ BeforeFill[j].CS # NaN}

\* C15: the fill-forward leaves a present College Sequence as it is; a missing
\* one becomes the College Sequence of the nearest row before it with the same
\* (identity, Requester Return Field, Enrollment Begin) that has one, and stays
\* missing when there is no such row.
C15_FillForwardWithinGroup ==
    Returned =>
        /\ Len(conv.filled) = Len(BeforeFill)
        /\ \A i \in 1..Len(BeforeFill) :
              IF BeforeFill[i].CS # NaN
              THEN conv.filled[i].CS = BeforeFill[i].CS
              ELSE FillKeyPresent(BeforeFill[i]) =>
                      conv.filled[i].CS =
                         IF FillSources(i) = {} THEN NaN
                         ELSE BeforeFill[MaxOf(FillSources(i))].CS

\* no cell of the returned table is a missing value
NoNullCell ==
    \A k \in OutIndex :
        LET x == conv.out[k]
        IN  /\ \A c \in {"LastName", "MiddleInitial", "RRF", "Found", "SearchDate",
                          "CS", "Major1", "Major2", "LastMajor1", "LastMajor2",
                          "Grad", "DegreeTitle"} : x[c] # NaN
            /\ x.Begin # NaT /\ x.End # NaT
            /\ x.Semesters # NaNInt /\ x.TotalDays # NaNInt

\* a no-activity row has 0 for the three counts and '' for the other cells it
\* had no value for
NoActivityFilled ==
    \A k \in OutIndex : conv.out[k].Found = "N" =>
        /\ conv.out[k].CS = "0"
        /\ conv.out[k].Semesters = 0 /\ conv.out[k].TotalDays = 0
        /\ conv.out[k].Begin = "" /\ conv.out[k].End = ""
        /\ conv.out[k].Major1 = "" /\ conv.out[k].Major2 = ""

\* C20 as stated: the returned rows are in ascending order of (identity,
\* Requester Return Field, College Sequence) and no cell is null, the three
\* counts being 0 and every other cell '' where a value was missing.
C20_SortedAndFilled ==
    Returned =>
        /\ \A k \in 1..(Len(conv.out) - 1) :
              CompareFrom(conv.out[k], conv.out[k + 1], 1) <= 0
        /\ NoNullCell
        /\ NoActivityFilled

\* the sort key of an output row as it was when the table was sorted: the ''
\* of a Requester Return Field and the 0 of a College Sequence are fills of
\* missing values
KeyWhenSorted(x) ==
    [LastName |-> x.LastName, MiddleInitial |-> x.MiddleInitial,
     RRF |-> IF x.RRF = "" THEN NaN ELSE x.RRF,
     CS |-> IF x.CS = "0" THEN NaN ELSE x.CS]

\* C20, amended: the returned rows are in ascending order of the key as it is
\* before the missing values are filled, a missing Requester Return Field or
\* College Sequence coming after every value; no cell is null, the three
\* counts being 0 and every other cell '' where a value was missing.
C20_SortedBeforeFilled ==
    Returned =>
        /\ \A k \in 1..(Len(conv.out) - 1) :
              CompareFrom(KeyWhenSorted(conv.out[k]), KeyWhenSorted(conv.out[k + 1]), 1) <= 0
        /\ NoNullCell
        /\ NoActivityFilled

\* a no-activity row behind the period of the same student and return field,
\* and a row that the join put in front of a row with a smaller key
C20_Witness ==
    /\ Returned
    /\ \E k \in 1..(Len(conv.out) - 1) :
          /\ conv.out[k].Found = "Y" /\ conv.out[k].CS = "1"
          /\ conv.out[k + 1].Found = "N" /\ conv.out[k + 1].CS = "0"
          /\ conv.out[k + 1].LastName = conv.out[k].LastName
          /\ conv.out[k + 1].RRF = conv.out[k].RRF
    /\ \E i, j \in 1..Len(csv) :
          i < j /\ csv[i].LastName = "B" /\ csv[j].LastName = "A"

\* the found rows of the file that are not graduation rows
FoundNotGraduated == {i \in 1..Len(csv) : csv[i].Found = "Y" /\ csv[i].Grad # "Y"}

\* the output rows of the enrollment periods
OutputPeriods == {k \in OutIndex : conv.out[k].Found = "Y"}

\* C21: of the found rows only those with Graduated? = "Y" are removed, and
\* every other found row is counted in one output period: the Semesters at
\* Institution of the output periods add up to the number of found rows whose
\* Graduated? is not "Y", rows with a missing Graduated?, Requester Return
\* Field or College Sequence included.
C21_RowsConserved ==
    Returned =>
        /\ Len(conv.filled) = Cardinality(FoundNotGraduated)
        /\ SumOf([k \in OutIndex |-> conv.out[k].Semesters], OutputPeriods)
              = Cardinality(FoundNotGraduated)

====
